---- MODULE Spec2Model ----
(***************************************************************************)
(* A model of HR_app.py, the Streamlit script that draws a                 *)
(* Hertzsprung-Russell diagram from an uploaded CSV file.                  *)
(*                                                                         *)
(* Streamlit runs the whole script top to bottom once per page event (a    *)
(* file upload, or any other interaction, which re-runs it on the same     *)
(* file).  One run is: load_data, map_star_types, plot_hr_diagram,         *)
(* st.pyplot.  The model follows a run statement by statement of the main  *)
(* block (lines 129-136); every function the block calls is modelled       *)
(* whole, library calls included, by what the call does.                   *)
(*                                                                         *)
(* Abscissae (temperatures, x limits, x ticks) are held in tenths of a     *)
(* kelvin, so that the factors 0.9 and 1.1 of line 111 are exact.          *)
(***************************************************************************)
EXTENDS Integers, Sequences, FiniteSets, TLC

VARIABLES
  uploaded_file,  \* line 24: the file the uploader widget holds, or None
  pc,             \* position of the running script in the main block
  df,             \* the script's df
  fig,            \* the script's fig
  page,           \* what the run has written to the page: st.error / st.info
  displayed,      \* the figure handed to st.pyplot, or None
  exc,            \* the exception that ended the run uncaught, "" when none
  calls,          \* the functions of the script this run has entered, in order
  gcf,            \* pyplot's current figure: process state, survives re-runs
  runs,           \* number of runs of the script on an uploaded file so far
  hist            \* file and outcome of every finished run on a file, in order

vars == <<uploaded_file, pc, df, fig, page, displayed, exc, calls, gcf, runs, hist>>

----------------------------------------------------------------------------
(* Bounds of the model *)

\* longest dataset (number of data rows) an uploaded file carries
MaxRows == 2
\* number of runs of the script on an uploaded file in one session
MaxRuns == 3

----------------------------------------------------------------------------
(* Generic helpers *)

None == [tag |-> "None"]

Range(s) == {s[i] : i \in 1..Len(s)}

SetMin(S) == CHOOSE x \in S : \A y \in S : x <= y

SetMax(S) == CHOOSE x \in S : \A y \in S : y <= x

SeqsUpTo(S, n) == UNION {[1..k -> S] : k \in 0..n}

\* pandas Series.unique(): the distinct values in order of first appearance
RECURSIVE Unique(_)
Unique(s) ==
  IF Len(s) = 0 THEN <<>>
  ELSE LET u == Unique(SubSeq(s, 1, Len(s) - 1))
           x == s[Len(s)]
       IN IF x \in Range(u) THEN u ELSE Append(u, x)

----------------------------------------------------------------------------
(* The uploaded files the model draws from *)

\* temperatures, in kelvin, a row may carry: below the lowest and at the highest
\* fixed tick of the axes, so that padded ranges fall on both sides of the ticks
TempValues == {1900, 40000}

MagValues == {-5, 5}

LumValues == {1}

ClassValues == {"G"}

\* the codes of the lookup table, and one code outside it
TypeValues == 0..6

\* the text of the exception pd.read_csv raises on content it cannot parse
ParseCauses == {"No columns to parse from file", "Error tokenizing data"}

\* the cells of one line of the CSV under the five documented column names
Star(t, l, m, k, c) ==
  [c0 \in {"Temperature (K)", "Luminosity(L/Lo)", "Absolute magnitude(Mv)",
           "Star type", "Spectral Class"} |->
     CASE c0 = "Temperature (K)" -> t
       [] c0 = "Luminosity(L/Lo)" -> l
       [] c0 = "Absolute magnitude(Mv)" -> m
       [] c0 = "Star type" -> k
       [] OTHER -> c]

Stars ==
  {Star(t, l, m, k, c) : t \in TempValues, l \in LumValues, m \in MagValues,
                         k \in TypeValues, c \in ClassValues}

\* header lines: complete in the documented order; complete, in another order and
\* with a further column; one required column absent (each of the five in turn);
\* one required column present only in another letter case
Headers ==
  { <<"Temperature (K)", "Luminosity(L/Lo)", "Absolute magnitude(Mv)", "Star type",
      "Spectral Class">>,
    <<"Spectral Class", "Extra", "Star type", "Absolute magnitude(Mv)",
      "Luminosity(L/Lo)", "Temperature (K)">>,
    <<"Luminosity(L/Lo)", "Absolute magnitude(Mv)", "Star type", "Spectral Class">>,
    <<"Temperature (K)", "Absolute magnitude(Mv)", "Star type", "Spectral Class">>,
    <<"Temperature (K)", "Luminosity(L/Lo)", "Star type", "Spectral Class">>,
    <<"Temperature (K)", "Luminosity(L/Lo)", "Absolute magnitude(Mv)",
      "Spectral Class", "Extra">>,
    <<"Temperature (K)", "Luminosity(L/Lo)", "Absolute magnitude(Mv)", "Star type">>,
    <<"Temperature (K)", "Luminosity(L/Lo)", "Absolute magnitude(Mv)", "star type",
      "Spectral Class">> }

\* the cell of column col on the line that carries star
Cell(col, star) ==
  IF col \in DOMAIN star THEN star[col]
  ELSE IF col = "star type" THEN star["Star type"]
  ELSE 0

\* a well-formed CSV: a header line and one line per star, each line with one cell
\* per header column
CsvFile(header, stars) ==
  [cause |-> "",
   header |-> header,
   lines |-> [i \in 1..Len(stars) |-> [col \in Range(header) |-> Cell(col, stars[i])]]]

\* content pd.read_csv cannot parse
BadFile(cause) == [cause |-> cause, header |-> <<>>, lines |-> <<>>]

Files ==
  {CsvFile(h, s) : h \in Headers, s \in SeqsUpTo(Stars, MaxRows)}
    \cup {BadFile(c) : c \in ParseCauses}

----------------------------------------------------------------------------
(* pandas: the data frame and its columns *)

\* pd.read_csv (line 29): the data frame of a well-formed file; raises on the rest
read_csv(file) ==
  IF file.cause # ""
  THEN [raised |-> file.cause, value |-> None]
  ELSE [raised |-> "",
        value |-> [tag |-> "DataFrame", columns |-> file.header, rows |-> file.lines]]

\* df[name], the cells of one column from the first row to the last
Column(d, name) == [i \in 1..Len(d.rows) |-> d.rows[i][name]]

\* df[name] = values: an existing column is replaced, a new one goes last
SetColumn(d, name, values) ==
  [d EXCEPT
     !.columns = IF name \in Range(@) THEN @ ELSE Append(@, name),
     !.rows = [i \in 1..Len(@) |->
                 [col \in DOMAIN @[i] \cup {name} |->
                    IF col = name THEN values[i] ELSE @[i][col]]]]

\* a floating-point result that may be NaN
Float(v) == [nan |-> FALSE, v |-> v]

NaN == [nan |-> TRUE, v |-> 0]

\* Series.min() and Series.max(): NaN on a column without rows
SeriesMin(col) == IF Len(col) = 0 THEN NaN ELSE Float(SetMin(Range(col)))

SeriesMax(col) == IF Len(col) = 0 THEN NaN ELSE Float(SetMax(Range(col)))

\* x * k and x + k on floats: NaN stays NaN
Times(x, k) == IF x.nan THEN NaN ELSE Float(x.v * k)

Plus(x, k) == IF x.nan THEN NaN ELSE Float(x.v + k)

----------------------------------------------------------------------------
(* load_data, lines 27-37 *)

required_columns ==
  <<"Temperature (K)", "Luminosity(L/Lo)", "Absolute magnitude(Mv)", "Star type",
    "Spectral Class">>

\* a variant of line 31 that reads any(...) for all(...)
has_any_required_column(columns) ==
  \E i \in 1..Len(required_columns) : required_columns[i] \in Range(columns)

\* line 31: all(col in df.columns for col in required_columns)
has_required_columns(columns) ==
  \A i \in 1..Len(required_columns) : required_columns[i] \in Range(columns)

\* a variant of lines 35-37 in which the exception leaves load_data
load_data_reraise(cause) == [raised |-> cause, ret |-> None, errors |-> <<>>]

\* the except clause of lines 35-37: the exception becomes a message, None is returned
load_data_except(cause) ==
  [raised |-> "", ret |-> None, errors |-> <<<<"Error loading data: ", cause>>>>]

load_data(file) ==
  LET r == read_csv(file)
  IN IF r.raised # "" THEN load_data_except(r.raised)
     ELSE IF ~has_required_columns(r.value.columns)
     THEN [raised |-> "", ret |-> None,
           errors |-> <<<<"Dataset is missing one or more required columns.", "">>>>]
     ELSE [raised |-> "", ret |-> r.value, errors |-> <<>>]

----------------------------------------------------------------------------
(* map_star_types, lines 40-52 *)

\* a variant of lines 41-48 with the colors of codes 1 and 2 exchanged
star_type_map_exchanged ==
  [k \in 0..5 |->
     CASE k = 0 -> <<"Red Dwarf", 30, "red">>
       [] k = 1 -> <<"Brown Dwarf", 20, "green">>
       [] k = 2 -> <<"White Dwarf", 25, "maroon">>
       [] k = 3 -> <<"Main Sequence", 50, "blue">>
       [] k = 4 -> <<"Giant", 80, "orange">>
       [] OTHER -> <<"Supergiant", 100, "purple">>]

star_type_map ==
  [k \in 0..5 |->
     CASE k = 0 -> <<"Red Dwarf", 30, "red">>
       [] k = 1 -> <<"Brown Dwarf", 20, "maroon">>
       [] k = 2 -> <<"White Dwarf", 25, "green">>
       [] k = 3 -> <<"Main Sequence", 50, "blue">>
       [] k = 4 -> <<"Giant", 80, "orange">>
       [] OTHER -> <<"Supergiant", 100, "purple">>]

\* star_type_map[x] raises KeyError on a key the dictionary does not hold
KeyFound(x) == x \in DOMAIN star_type_map

\* df['Star type'].map(lambda x: star_type_map[x][j])
MapColumn(d, j) ==
  [i \in 1..Len(d.rows) |-> star_type_map[d.rows[i]["Star type"]][j]]

map_star_types(d) ==
  IF \E i \in 1..Len(d.rows) : ~KeyFound(d.rows[i]["Star type"])
  THEN [raised |-> "KeyError", ret |-> None]  \* raised by line 49, nothing assigned
  ELSE LET d1 == SetColumn(d, "Star type label", MapColumn(d, 1))
           d2 == SetColumn(d1, "Marker size", MapColumn(d1, 2))
           d3 == SetColumn(d2, "Color", MapColumn(d2, 3))
       IN [raised |-> "", ret |-> d3]

----------------------------------------------------------------------------
(* matplotlib: axes, view limits and ticks *)

\* a kelvin value in the unit the abscissae are held in
Tenths(x) == x * 10

\* the axes a new figure, twiny() or twinx() starts from: linear scales, the
\* default view 0..1 on both axes, left to right and bottom to top
NewAxes ==
  [xscale |-> "linear", yscale |-> "linear",
   xlim |-> <<0, Tenths(1)>>, ylim |-> <<0, 1>>,
   xticks |-> <<>>, xticklabels |-> <<>>, yticks |-> <<>>, yticklabels |-> <<>>]

\* a variant of line 86 that draws on pyplot's current figure when there is one
SubplotsCurrent ==
  IF gcf # None THEN gcf
  ELSE [tag |-> "Figure", series |-> <<>>, ax |-> NewAxes, ax2 |-> None, ax3 |-> None]

\* plt.subplots (line 86): a new figure with one new axes, nothing drawn
Subplots == [tag |-> "Figure", series |-> <<>>, ax |-> NewAxes, ax2 |-> None, ax3 |-> None]

\* Axis.set_inverted(not Axis.get_inverted()): the two ends of the view change places
Inverted(lim) == <<lim[2], lim[1]>>

invert_xaxis(ax) == [ax EXCEPT !.xlim = Inverted(@)]

invert_yaxis(ax) == [ax EXCEPT !.ylim = Inverted(@)]

set_xscale(ax, scale) == [ax EXCEPT !.xscale = scale]

set_yscale(ax, scale) == [ax EXCEPT !.yscale = scale]

\* set_xlim / set_ylim refuse a NaN limit with ValueError
LimitsValid(a, b) == ~a.nan /\ ~b.nan

set_xlim(ax, left, right) == [ax EXCEPT !.xlim = <<left, right>>]

set_ylim(ax, bottom, top) == [ax EXCEPT !.ylim = <<bottom, top>>]

\* Axis.set_ticks: set_view_interval(min(ticks), max(ticks)) widens the view until
\* it holds every tick, and keeps the direction the view has
ViewWithTicks(lim, ticks) ==
  IF Len(ticks) = 0 THEN lim
  ELSE IF lim[1] < lim[2]
  THEN <<SetMin(Range(ticks) \cup {lim[1]}), SetMax(Range(ticks) \cup {lim[2]})>>
  ELSE <<SetMax(Range(ticks) \cup {lim[1]}), SetMin(Range(ticks) \cup {lim[2]})>>

set_xticks(ax, ticks) ==
  [ax EXCEPT !.xticks = ticks, !.xlim = ViewWithTicks(@, ticks)]

set_yticks(ax, ticks) ==
  [ax EXCEPT !.yticks = ticks, !.ylim = ViewWithTicks(@, ticks)]

\* ax.twiny(): new axes over ax that share its y axis; the x axis is their own
twiny(ax) == [NewAxes EXCEPT !.yscale = ax.yscale, !.ylim = ax.ylim]

\* ax.twinx(): new axes over ax that share its x axis; the y axis is their own
twinx(ax) == [NewAxes EXCEPT !.xscale = ax.xscale, !.xlim = ax.xlim, !.xticks = ax.xticks]

----------------------------------------------------------------------------
(* create_spectral_class_axis, lines 55-65 *)

spectral_classes == <<"O", "B", "A", "F", "G", "K", "M">>

temp_bounds == <<40000, 30000, 10000, 7500, 6000, 3700, 2000>>

\* temp_range is (temp_min, temp_max), in tenths of a kelvin
create_spectral_class_axis(ax, temp_range) ==
  LET a1 == set_xscale(twiny(ax), "log")
      a2 == set_xlim(a1, temp_range[1], temp_range[2])
      a3 == set_xticks(a2, [i \in 1..Len(temp_bounds) |-> Tenths(temp_bounds[i])])
      a4 == [a3 EXCEPT !.xticklabels = spectral_classes]
  IN invert_xaxis(a4)

----------------------------------------------------------------------------
(* create_luminosity_axis, lines 68-82 *)

\* the y axis of ax3 is held in decades: 10^k is k
l_min == -6

l_max == 6

l_ticks == [i \in 1..(l_max - l_min + 1) |-> l_min + i - 1]

create_luminosity_axis(ax, mv_range) ==
  LET a1 == set_yscale(twinx(ax), "log")
      a2 == set_ylim(a1, l_min, l_max)
      a3 == set_yticks(a2, l_ticks)
  IN [a3 EXCEPT !.yticklabels = [i \in 1..Len(l_ticks) |-> <<"10^", l_ticks[i]>>]]

----------------------------------------------------------------------------
(* plot_hr_diagram, lines 85-126 *)

major_ticks == <<40000, 30000, 20000, 10000, 7500, 6000, 5000, 3000>>

\* a variant of line 89 that keeps the whole frame
SubsetWhole(d, s_type) == d.rows

\* line 89: df[df['Star type label'] == s_type], the rows in their order
Subset(d, s_type) ==
  LET Carries(row) == row["Star type label"] = s_type
  IN SelectSeq(d.rows, Carries)

\* lines 91-100: one ax.scatter call, a series of the figure
Scatter(subset, color, s_type) ==
  [label |-> s_type,
   c |-> color,
   s |-> subset[1]["Marker size"],
   offsets |-> [i \in 1..Len(subset) |->
                  <<subset[i]["Temperature (K)"], subset[i]["Absolute magnitude(Mv)"]>>]]

\* line 88: zip(...) pairs the two lists position by position and stops with the shorter
ZipLength(labels, colors) == IF Len(labels) <= Len(colors) THEN Len(labels) ELSE Len(colors)

\* lines 88-100: the series drawn, in the order of the loop
RECURSIVE SeriesLoop(_, _, _, _)
SeriesLoop(d, labels, colors, n) ==
  IF n = 0 THEN <<>>
  ELSE LET before == SeriesLoop(d, labels, colors, n - 1)
           subset == Subset(d, labels[n])
       IN IF Len(subset) # 0
          THEN Append(before, Scatter(subset, colors[n], labels[n]))
          ELSE before

\* line 111, in tenths of a kelvin: min * 0.9 and max * 1.1
temp_min(d) == Times(SeriesMin(Column(d, "Temperature (K)")), 9)

temp_max(d) == Times(SeriesMax(Column(d, "Temperature (K)")), 11)

\* line 112
mv_min(d) == Plus(SeriesMin(Column(d, "Absolute magnitude(Mv)")), -1)

mv_max(d) == Plus(SeriesMax(Column(d, "Absolute magnitude(Mv)")), 1)

\* a variant of line 88 that lists the colors in the opposite order
UniqueColorsReversed(d) ==
  LET u == Unique(Column(d, "Color"))
  IN [i \in 1..Len(u) |-> u[Len(u) + 1 - i]]

\* line 88: df['Star type label'].unique() and df['Color'].unique()
UniqueLabels(d) == Unique(Column(d, "Star type label"))

\* line 88
UniqueColors(d) == Unique(Column(d, "Color"))

\* lines 86-109: the figure as it stands when the ranges are computed.  The view
\* the scatter calls autoscale is replaced whole at lines 113-114; only its
\* direction, that of new axes, is read before (lines 103-104).
FigureDrawn(d) ==
  LET labels == UniqueLabels(d)
      colors == UniqueColors(d)
      f0 == Subplots
      a1 == set_xscale(f0.ax, "log")
      a2 == invert_xaxis(a1)
      a3 == invert_yaxis(a2)
  IN [f0 EXCEPT !.series = @ \o SeriesLoop(d, labels, colors, ZipLength(labels, colors)),
                !.ax = a3]

\* lines 113-117: the primary axes with their limits and major ticks set
PrimaryAxes(ax, d) ==
  LET a4 == set_xlim(ax, temp_max(d).v, temp_min(d).v)
      a5 == set_ylim(a4, mv_max(d).v, mv_min(d).v)
  IN set_xticks(a5, [i \in 1..Len(major_ticks) |-> Tenths(major_ticks[i])])

\* ret is the figure returned; current is the figure pyplot holds afterwards
plot_hr_diagram(d) ==
  LET f1 == FigureDrawn(d)
  IN IF ~LimitsValid(temp_max(d), temp_min(d)) \/ ~LimitsValid(mv_max(d), mv_min(d))
     THEN [raised |-> "ValueError", ret |-> None, current |-> f1]  \* line 113
     ELSE LET a6 == PrimaryAxes(f1.ax, d)
              f2 == [f1 EXCEPT
                       !.ax = a6,
                       !.ax2 = create_spectral_class_axis(
                                 a6, <<temp_min(d).v, temp_max(d).v>>),
                       !.ax3 = create_luminosity_axis(a6, <<mv_min(d).v, mv_max(d).v>>)]
          IN [raised |-> "", ret |-> f2, current |-> f2]

----------------------------------------------------------------------------
(* The session: uploads and re-runs of the script *)

\* the files a session may upload after its first: repeated uploads are followed
\* for these only, the first upload of a session is any of Files
SessionFiles ==
  { BadFile("Error tokenizing data"),
    CsvFile(<<"Temperature (K)", "Luminosity(L/Lo)", "Absolute magnitude(Mv)",
              "Spectral Class", "Extra">>, <<Star(1900, 1, 5, 3, "G")>>),
    CsvFile(required_columns, <<>>),
    CsvFile(required_columns, <<Star(1900, 1, 5, 0, "G")>>),
    CsvFile(required_columns, <<Star(40000, 1, -5, 6, "G")>>),
    CsvFile(required_columns, <<Star(40000, 1, -5, 5, "G"), Star(1900, 1, 5, 0, "G")>>),
    CsvFile(required_columns, <<Star(1900, 1, 5, 0, "G"), Star(40000, 1, -5, 5, "G")>>),
    CsvFile(required_columns, <<Star(40000, 1, 5, 3, "G"), Star(40000, 1, -5, 3, "G")>>) }

\* what a finished run leaves for the user, with the file it ran on
Outcome(file, p, shown, d, e) ==
  [file |-> file, page |-> p, displayed |-> shown, df |-> d, exc |-> e]

Init ==
  /\ uploaded_file = None
  /\ pc = "start"
  /\ df = None
  /\ fig = None
  /\ page = <<>>
  /\ displayed = None
  /\ exc = ""
  /\ calls = <<>>
  /\ gcf = None
  /\ runs = 0
  /\ hist = <<>>

\* Streamlit starts the script again from its first line, in a new namespace;
\* pyplot's figures belong to the process and stay
StartRun(file) ==
  /\ uploaded_file' = file
  /\ pc' = "start"
  /\ df' = None
  /\ fig' = None
  /\ page' = <<>>
  /\ displayed' = None
  /\ exc' = ""
  /\ calls' = <<>>
  /\ runs' = IF file = None THEN runs ELSE runs + 1
  /\ UNCHANGED <<gcf, hist>>

\* line 24: the user uploads a file, the first of the session or another one
Upload ==
  /\ pc \in {"done", "fault"}
  /\ runs < MaxRuns
  /\ \E file \in IF uploaded_file = None THEN Files
                 ELSE IF uploaded_file \in SessionFiles THEN SessionFiles ELSE {} :
       StartRun(file)

\* any other page event: the script runs again on the file the widget holds
\* (followed, like repeated uploads, for the files of SessionFiles)
Rerun ==
  /\ pc \in {"done", "fault"}
  /\ runs < MaxRuns
  /\ uploaded_file = None \/ uploaded_file \in SessionFiles
  /\ StartRun(uploaded_file)

\* lines 129, 135-136: no file yet
NoUpload ==
  /\ pc = "start"
  /\ uploaded_file = None
  /\ page' = Append(page, <<"Please upload a CSV file to generate the H-R diagram.", "">>)
  /\ pc' = "done"
  /\ UNCHANGED <<uploaded_file, df, fig, displayed, exc, calls, gcf, runs, hist>>

\* lines 129-130: df = load_data(uploaded_file)
LoadData ==
  /\ pc = "start"
  /\ uploaded_file # None
  /\ LET r == load_data(uploaded_file)
     IN /\ calls' = Append(calls, "load_data")
        /\ page' = page \o r.errors
        /\ df' = r.ret
        /\ exc' = r.raised
        /\ IF r.raised # ""
           THEN /\ pc' = "fault"
                /\ hist' = Append(hist, Outcome(uploaded_file, page', displayed, df', exc'))
           ELSE /\ pc' = "loaded"
                /\ hist' = hist
  /\ UNCHANGED <<uploaded_file, fig, displayed, gcf, runs>>

\* line 131, df is None: the run ends with nothing more on the page
SkipRender ==
  /\ pc = "loaded"
  /\ df = None
  /\ pc' = "done"
  /\ hist' = Append(hist, Outcome(uploaded_file, page, displayed, df, exc))
  /\ UNCHANGED <<uploaded_file, df, fig, page, displayed, exc, calls, gcf, runs>>

\* lines 131-132: df = map_star_types(df); no handler surrounds the call
MapStarTypes ==
  /\ pc = "loaded"
  /\ df # None
  /\ LET r == map_star_types(df)
     IN /\ calls' = Append(calls, "map_star_types")
        /\ exc' = r.raised
        /\ IF r.raised # ""
           THEN /\ pc' = "fault"
                /\ df' = df
                /\ hist' = Append(hist, Outcome(uploaded_file, page, displayed, df', exc'))
           ELSE /\ pc' = "mapped"
                /\ df' = r.ret
                /\ hist' = hist
  /\ UNCHANGED <<uploaded_file, fig, page, displayed, gcf, runs>>

\* line 133: fig = plot_hr_diagram(df); no handler surrounds the call
PlotHrDiagram ==
  /\ pc = "mapped"
  /\ LET r == plot_hr_diagram(df)
     IN /\ calls' = Append(calls, "plot_hr_diagram")
        /\ exc' = r.raised
        /\ gcf' = r.current
        /\ fig' = r.ret
        /\ IF r.raised # ""
           THEN /\ pc' = "fault"
                /\ hist' = Append(hist, Outcome(uploaded_file, page, displayed, df, exc'))
           ELSE /\ pc' = "plotted"
                /\ hist' = hist
  /\ UNCHANGED <<uploaded_file, df, page, displayed, runs>>

\* line 134: st.pyplot(fig)
Pyplot ==
  /\ pc = "plotted"
  /\ displayed' = fig
  /\ pc' = "done"
  /\ hist' = Append(hist, Outcome(uploaded_file, page, displayed', df, exc))
  /\ UNCHANGED <<uploaded_file, df, fig, page, exc, calls, gcf, runs>>

Next ==
  \/ Upload
  \/ Rerun
  \/ NoUpload
  \/ LoadData
  \/ SkipRender
  \/ MapStarTypes
  \/ PlotHrDiagram
  \/ Pyplot

Spec == Init /\ [][Next]_vars

----------------------------------------------------------------------------
(* Properties *)

\* the five column names of the documentation (lines 14-19)
DocumentedColumns ==
  {"Temperature (K)", "Luminosity(L/Lo)", "Absolute magnitude(Mv)", "Star type",
   "Spectral Class"}

\* the lookup table as the documentation gives it: code -> (label, size, color)
DocumentedEntry(k) ==
  CASE k = 0 -> <<"Red Dwarf", 30, "red">>
    [] k = 1 -> <<"Brown Dwarf", 20, "maroon">>
    [] k = 2 -> <<"White Dwarf", 25, "green">>
    [] k = 3 -> <<"Main Sequence", 50, "blue">>
    [] k = 4 -> <<"Giant", 80, "orange">>
    [] k = 5 -> <<"Supergiant", 100, "purple">>

\* the run is on a file that parses
Parsed == uploaded_file # None /\ uploaded_file.cause = ""

\* the run is on a file that parses and whose header holds the five columns
Validated == Parsed /\ DocumentedColumns \subseteq Range(uploaded_file.header)

Codes == {uploaded_file.lines[i]["Star type"] : i \in 1..Len(uploaded_file.lines)}

Entered(f) == f \in Range(calls)

\* C1: a parsed file whose header lacks one of the five required columns makes
\* load_data report the validation error and return None, after which neither
\* map_star_types nor plot_hr_diagram runs and no figure exists; a header that
\* holds all five, in any order and among other columns, passes: no error is
\* reported and load_data returns the parsed frame.
C1_MissingColumnStopsRun ==
  (Parsed /\ pc # "start") =>
    IF DocumentedColumns \subseteq Range(uploaded_file.header)
    THEN /\ page = <<>>
         /\ df # None
         /\ pc = "loaded" => /\ df.columns = uploaded_file.header
                             /\ df.rows = uploaded_file.lines
    ELSE /\ page = <<<<"Dataset is missing one or more required columns.", "">>>>
         /\ df = None
         /\ calls = <<"load_data">>
         /\ pc \in {"loaded", "done"}
         /\ fig = None /\ displayed = None /\ exc = ""

\* a finished run on a file with data rows whose header has "star type" for "Star type"
C1_Witness ==
  /\ pc = "done"
  /\ Parsed
  /\ "Star type" \notin Range(uploaded_file.header)
  /\ "star type" \in Range(uploaded_file.header)
  /\ Len(uploaded_file.lines) = MaxRows
  /\ df = None
  /\ Len(page) = 1

\* C8: when parsing the upload fails, load_data reports "Error loading data:"
\* with the cause, returns None and raises nothing, and the run ends without
\* map_star_types, plot_hr_diagram or a figure.
C8_ParseFailureReported ==
  (uploaded_file # None /\ uploaded_file.cause # "" /\ pc # "start") =>
    /\ page = <<<<"Error loading data: ", uploaded_file.cause>>>>
    /\ df = None
    /\ exc = ""
    /\ pc \in {"loaded", "done"}
    /\ calls = <<"load_data">>
    /\ fig = None /\ displayed = None

C8_Witness ==
  /\ pc = "done"
  /\ uploaded_file # None
  /\ uploaded_file.cause = "Error tokenizing data"
  /\ Len(page) = 1

\* C2: a validated dataset with a 'Star type' code outside 0..5 ends its run with
\* the lookup failure reported on the page as an error, no figure, and no
\* uncaught exception.
C2_LookupFailureReported ==
  (Validated /\ ~(Codes \subseteq 0..5) /\ pc \in {"done", "fault"}) =>
    /\ pc = "done"
    /\ exc = ""
    /\ Len(page) >= 1
    /\ fig = None /\ displayed = None

\* C3: a validated dataset without data rows ends its run without error and with
\* a figure displayed that has no series and has its three axes.
C3_EmptyDatasetRenders ==
  (Validated /\ Len(uploaded_file.lines) = 0 /\ pc \in {"done", "fault"}) =>
    /\ pc = "done"
    /\ exc = ""
    /\ page = <<>>
    /\ Len(df.rows) = 0
    /\ displayed # None
    /\ displayed.series = <<>>
    /\ displayed.ax2 # None /\ displayed.ax3 # None

\* C4: on a validated dataset whose codes are all in 0..5 map_star_types raises
\* nothing and returns as many rows, in the same order, each with the label,
\* marker size and color the documented table gives its code, and with the cells
\* of the uploaded columns unchanged.
C4_ClassifierFollowsTable ==
  (Validated /\ Codes \subseteq 0..5 /\ Entered("map_star_types")) =>
    /\ exc # "KeyError"
    /\ Len(df.rows) = Len(uploaded_file.lines)
    /\ \A i \in 1..Len(df.rows) :
         LET line == uploaded_file.lines[i]
             entry == DocumentedEntry(line["Star type"])
         IN /\ df.rows[i]["Star type label"] = entry[1]
            /\ df.rows[i]["Marker size"] = entry[2]
            /\ df.rows[i]["Color"] = entry[3]
            /\ \A col \in Range(uploaded_file.header) : df.rows[i][col] = line[col]

\* a classified dataset of two rows, a main-sequence star and a supergiant
C4_Witness ==
  /\ pc = "mapped"
  /\ Len(df.rows) = 2
  /\ df.rows[1]["Star type"] = 3 /\ df.rows[1]["Star type label"] = "Main Sequence"
  /\ df.rows[2]["Star type"] = 5 /\ df.rows[2]["Marker size"] = 100
  /\ "Extra" \in Range(df.columns)

\* the figure plot_hr_diagram has drawn in this run, also when it raised later
Drawn == calls # <<>> /\ calls[Len(calls)] = "plot_hr_diagram"

LabelsPresent == {df.rows[i]["Star type label"] : i \in 1..Len(df.rows)}

RowsLabelled(label) == {i \in 1..Len(df.rows) : df.rows[i]["Star type label"] = label}

\* C5: plot_hr_diagram draws as many scatter series as the dataset has distinct
\* labels, one per label, and the series of a label holds exactly the rows that
\* carry it (as many points, the k-th point being the k-th such row), so every
\* row is drawn in exactly one series.
C5_OneSeriesPerLabel ==
  Drawn =>
    /\ Len(gcf.series) = Cardinality(LabelsPresent)
    /\ {gcf.series[j].label : j \in 1..Len(gcf.series)} = LabelsPresent
    /\ \A j \in 1..Len(gcf.series) :
         LET sr == gcf.series[j]
             members == RowsLabelled(sr.label)
         IN /\ Len(sr.offsets) = Cardinality(members)
            /\ \A i \in members :
                 LET k == Cardinality({i2 \in members : i2 <= i})
                 IN sr.offsets[k] = <<df.rows[i]["Temperature (K)"],
                                      df.rows[i]["Absolute magnitude(Mv)"]>>

\* two series from as many rows as a file may carry, the first row a giant
C5_Witness ==
  /\ pc = "done"
  /\ displayed # None
  /\ Len(df.rows) = MaxRows
  /\ Len(displayed.series) = 2
  /\ displayed.series[1].label = "Giant"

\* C10: every series is drawn in the color and the marker size the documented
\* table gives its label, whatever the order of the rows, and that marker size
\* is the marker size of every row of the series.
C10_SeriesColorAndSize ==
  Drawn =>
    \A j \in 1..Len(gcf.series) :
      LET sr == gcf.series[j]
      IN /\ \E k \in 0..5 : DocumentedEntry(k) = <<sr.label, sr.s, sr.c>>
         /\ \A i \in RowsLabelled(sr.label) : df.rows[i]["Marker size"] = sr.s

\* rows of two types, the type of larger code first
C10_Witness ==
  /\ pc = "done"
  /\ displayed # None
  /\ Len(displayed.series) = 2
  /\ df.rows[1]["Star type"] = 4
  /\ df.rows[Len(df.rows)]["Star type"] = 1
  /\ displayed.series[2].c = "maroon"

Temperatures == {df.rows[i]["Temperature (K)"] : i \in 1..Len(df.rows)}

Magnitudes == {df.rows[i]["Absolute magnitude(Mv)"] : i \in 1..Len(df.rows)}

\* max(Temperature) * 1.1 and min(Temperature) * 0.9, in tenths of a kelvin
PaddedRange == <<SetMax(Temperatures) * 11, SetMin(Temperatures) * 9>>

\* C6: after plot_hr_diagram on a dataset with rows, the primary x axis runs from
\* max(Temperature) * 1.1 on the left to min(Temperature) * 0.9 on the right,
\* left above right, and the primary y axis from max(Mv) + 1 to min(Mv) - 1.
C6_PrimaryRanges ==
  (Entered("plot_hr_diagram") /\ Len(df.rows) > 0) =>
    /\ fig # None
    /\ fig.ax.xlim = PaddedRange
    /\ fig.ax.xlim[1] > fig.ax.xlim[2]
    /\ fig.ax.ylim = <<SetMax(Magnitudes) + 1, SetMin(Magnitudes) - 1>>

\* C9: in the finished figure the spectral-class axis has the limits of the
\* primary x axis, max(Temperature) * 1.1 on the left and min(Temperature) * 0.9
\* on the right, and the luminosity axis shares that primary x axis.
C9_SecondaryAxisAligned ==
  (Entered("plot_hr_diagram") /\ Len(df.rows) > 0) =>
    /\ fig # None
    /\ fig.ax.xlim = PaddedRange
    /\ fig.ax2.xlim = PaddedRange
    /\ fig.ax3.xlim = fig.ax.xlim

\* C7: two runs of the session on the same uploaded content end the same way:
\* the same messages, the same data frame with its derived columns, the same
\* figure with its axis ranges, the same exception, whatever was uploaded and
\* run in between.
C7_SameFileSameOutcome ==
  \A i, j \in 1..Len(hist) : hist[i].file = hist[j].file => hist[i] = hist[j]

\* a file rendered, another file rendered, the first file rendered again
C7_Witness ==
  /\ Len(hist) = 3
  /\ hist[1].file = hist[3].file
  /\ hist[1].file # hist[2].file
  /\ hist[1].displayed # None
  /\ hist[2].displayed # None
  /\ hist[3].displayed # None

====
